---- MODULE Spec2Model ----
(***************************************************************************)
(* Model of the wall follower node (wall_follower.cpp / wall_follower.hpp). *)
(*                                                                         *)
(* The node is driven by rclcpp::spin, a single-threaded executor: each    *)
(* callback (scan_callback, odom_callback, the 100 ms update_callback)     *)
(* runs to completion before the next one starts, in any order.  One       *)
(* action of the model is one complete callback invocation.                *)
(*                                                                         *)
(* Numbers.  Distances (scan samples, clearances, positions, thresholds)   *)
(* are exact decimals held as integers in hundredths of a unit: 0.9 is 90. *)
(* Velocities and the decay factor are exact rationals [num, den] in       *)
(* lowest terms, so 0.3 * 0.8 is 6/25 = 0.24.  The doubles of the program  *)
(* are modelled as the reals they denote.                                  *)
(*                                                                         *)
(* robot_pose_ (the yaw extracted from the quaternion) is written by       *)
(* odom_callback and read only by its own log line; it is left out.        *)
(***************************************************************************)
EXTENDS Integers, Sequences, FiniteSets, TLC

\* ------------------------------------------------------------------ bounds
\* since_new_scan is an int incremented without limit; ticks that would take
\* it past MaxStale are not explored.
MaxStale == 3
\* Scans longer than a full sweep have FullSweep + MaxExtra samples.
MaxExtra == 1
\* The ghost count of policy evaluations that saw one raise saturates here.
SeenCap == 2

\* ------------------------------------------------------- program constants
FRONT == 0
FRONT_LEFT == 1
LEFT_FRONT == 2
FRONT_RIGHT == 11
\* number of entries of scan_data_ and of scan_angle
NumSectors == 12
\* START_RANGE 0.2, in hundredths
START_RANGE == 20
BEAM_WIDTH == 10
\* the literal 360 of the forward beam's loop bounds
FullSweep == 360
\* degrees between two entries of scan_angle
SectorStep == 30

\* ---------------------------------------------------------------- rationals
Abs(a) == IF a < 0 THEN -a ELSE a

RECURSIVE GCD(_, _)
GCD(a, b) == IF b = 0 THEN a ELSE GCD(b, a % b)

\* the rational n/d (d > 0) in lowest terms
Rat(n, d) ==
    LET g == GCD(Abs(n), d)
    IN  [num |-> n \div g, den |-> d \div g]

\* double * double
RatMul(a, b) == Rat(a.num * b.num, a.den * b.den)

Zero == Rat(0, 1)
BASE_FACTOR == Rat(8, 10)

\* pow(base, n) for an int n >= 0
RECURSIVE pow(_, _)
pow(base, n) == IF n = 0 THEN Rat(1, 1) ELSE RatMul(base, pow(base, n - 1))

\* ------------------------------------------------------------------- inputs
\* Positions delivered by the odometry, in hundredths: the origin, a point
\* within START_RANGE of it, a point at exactly START_RANGE, a point outside
\* on one axis only (negative side), and a point outside on both axes.
Poses == { <<0, 0>>, <<5, 5>>, <<20, 0>>, <<0, -30>>, <<100, 100>> }

\* A LaserScan message: ranges (a vector, here a sequence whose element k+1 is
\* ranges[k]) and range_max.  The scans explored have every sample equal to
\* `base` except for one sample `v` at index `p` (when p is inside the scan).
LaserScan(n, rmax, base, p, v) ==
    [ranges    |-> [k \in 1..n |-> IF k = p + 1 THEN v ELSE base],
     range_max |-> rmax]

\* under-length, exactly one sweep, over-length
ScanLens == {FullSweep - 1, FullSweep, FullSweep + MaxExtra}
\* range_max of the scans explored: 3.5, the LDS sensor's
RangeMaxes == {350}
\* sample values either side of the rule ladder's thresholds 0.6, 0.7, 0.9,
\* and one beyond range_max (no return)
Bases == {60, 70, 90, 100, 400}
SpikeValues == {50, 60}
\* indices at the start, centre and end of the beams of the sectors the
\* ladder reads, next to the wrap boundary and past a full sweep
SpikeAt == {0, 30, 40, 60, 330, 359, 360}

Scans ==
    { LaserScan(n, rmax, b, p, v) :
        n \in ScanLens, rmax \in RangeMaxes, b \in Bases, p \in SpikeAt,
        v \in SpikeValues }

VARIABLES
    scan_data_,       \* double scan_data_[12], indexed 0..11
    initial_scan,     \* bool: a scan callback has started at least once
    new_scan_data,    \* bool: a scan callback has started since the last tick consumed it
    since_new_scan,   \* int: ticks since the last fresh scan
    near_start,       \* bool
    start_x, start_y, \* double
    first,            \* static bool of odom_callback
    start_moving,     \* static bool of odom_callback
    running,          \* FALSE once an exception has left a callback (spin unwinds, main ends)
    cmd_vel_pub_,     \* the Twist messages published by the latest callback (<<>> or one)
    cmd_args,         \* the update_cmd_vel calls made by the latest callback (<<>> or one)
    near_raised,      \* ghost: the latest callback was an odom_callback that set near_start
    last_pose,        \* ghost: the position handled by the latest callback (<<>> or <<x, y>>)
    scan_ran,         \* ghost: some scan callback has been invoked
    scan_since_tick,  \* ghost: some scan callback has been invoked since the previous tick
    seen,             \* ghost: policy evaluations that saw near_start since it was last raised
    exceeded,         \* ghost: some pose sample since the start point was recorded was
                      \*        further than START_RANGE from it on some axis
    last_scan,        \* ghost: the message of the latest scan callback (<<>> or <<msg>>),
                      \*        recorded by the specification of the aggregation alone
    scan_pc           \* the scan callback in progress and the sectors it has stored so far
                      \*        (<<>> when none), used by the stepwise specification

vars == << scan_data_, initial_scan, new_scan_data, since_new_scan, near_start,
           start_x, start_y, first, start_moving, running, cmd_vel_pub_,
           cmd_args, near_raised, last_pose, scan_ran, scan_since_tick, seen, exceeded,
           last_scan, scan_pc >>

scanVars == << scan_data_, initial_scan, new_scan_data >>
odomVars == << near_start, start_x, start_y, first, start_moving >>
\* what only the specifications SpecScan and SpecExec below keep track of
auxVars == << last_scan, scan_pc >>

\* ------------------------------------------------------------ scan_callback
\* msg->ranges.at(angle) returns the sample when the index is inside the
\* vector and throws std::out_of_range otherwise.
InRange(msg, angle) == angle >= 0 /\ angle < Len(msg.ranges)

at(msg, angle) == msg.ranges[angle + 1]

\* uint16_t scan_angle[12] = {0, 30, ..., 330}
scan_angle(i) == i * SectorStep

\* for (angle = lo; angle < hi; angle++)
\*     if (ranges.at(angle) < closest) closest = ranges.at(angle);
RECURSIVE beam_min(_, _, _, _)
beam_min(msg, angle, hi, closest) ==
    IF angle >= hi
    THEN closest
    ELSE beam_min(msg, angle + 1, hi,
                  IF at(msg, angle) < closest THEN at(msg, angle) ELSE closest)

\* the indices sector i's loops pass to at()
beam_reads(i) ==
    IF i = FRONT
    THEN (FullSweep - BEAM_WIDTH .. FullSweep - 1) \cup (0 .. BEAM_WIDTH - 1)
    ELSE scan_angle(i) - BEAM_WIDTH .. scan_angle(i) + BEAM_WIDTH - 1

\* closest starting from the beam's first sample instead of range_max
sector_closest_from_sample(msg, i) ==
    IF i = FRONT
    THEN beam_min(msg, 0, BEAM_WIDTH,
                  beam_min(msg, FullSweep - BEAM_WIDTH, FullSweep,
                           at(msg, FullSweep - BEAM_WIDTH)))
    ELSE beam_min(msg, scan_angle(i) - BEAM_WIDTH, scan_angle(i) + BEAM_WIDTH,
                  at(msg, scan_angle(i) - BEAM_WIDTH))

\* the loops running up to and including bearing + BEAM_WIDTH
sector_closest_inclusive(msg, i) ==
    IF i = FRONT
    THEN beam_min(msg, 0, BEAM_WIDTH + 1,
                  beam_min(msg, FullSweep - BEAM_WIDTH, FullSweep, msg.range_max))
    ELSE beam_min(msg, scan_angle(i) - BEAM_WIDTH, scan_angle(i) + BEAM_WIDTH + 1,
                  msg.range_max)

\* the value assigned to scan_data_[i]
sector_closest(msg, i) ==
    IF i = FRONT
    THEN beam_min(msg, 0, BEAM_WIDTH,
                  beam_min(msg, FullSweep - BEAM_WIDTH, FullSweep, msg.range_max))
    ELSE beam_min(msg, scan_angle(i) - BEAM_WIDTH, scan_angle(i) + BEAM_WIDTH,
                  msg.range_max)

\* sector i's loops run without at() throwing
sector_ok(msg, i) == \A angle \in beam_reads(i) : InRange(msg, angle)

\* What one invocation does with its message, as far as the message alone
\* decides it.  The sectors are computed and stored in order; an at() that
\* throws leaves the callback at that point, so the sectors stored are those
\* before the first one whose loop throws.  `closest` maps each stored
\* sector to the value stored, `threw` tells whether an exception left the
\* callback.
scan_effect(msg) ==
    LET stored == {i \in 0 .. NumSectors - 1 : \A j \in 0 .. i : sector_ok(msg, j)}
    IN  [closest |-> [i \in stored |-> sector_closest(msg, i)],
         threw   |-> stored # 0 .. NumSectors - 1]

\* The effects of the scans explored (evaluated once: they do not depend on
\* the state).
ScanEffects == { scan_effect(msg) : msg \in Scans }

\* scan_callback resetting the staleness counter itself
scan_callback_resets_counter(e) ==
    /\ running
    /\ initial_scan' = TRUE
    /\ new_scan_data' = TRUE
    /\ scan_data_' = [i \in 0 .. NumSectors - 1 |->
                        IF i \in DOMAIN e.closest THEN e.closest[i] ELSE scan_data_[i]]
    /\ running' = ~e.threw
    /\ cmd_vel_pub_' = << >>
    /\ cmd_args' = << >>
    /\ near_raised' = FALSE
    /\ last_pose' = << >>
    /\ scan_ran' = TRUE
    /\ scan_since_tick' = TRUE
    /\ since_new_scan' = 0
    /\ UNCHANGED << odomVars, seen, exceeded >>

\* scan_callback on a message with effect e.  The flags are set first, then
\* the sectors are stored; the sectors not reached keep their old value.  An
\* exception is caught nowhere: it unwinds rclcpp::spin and main.
scan_callback(e) ==
    /\ running
    /\ initial_scan' = TRUE
    /\ new_scan_data' = TRUE
    /\ scan_data_' = [i \in 0 .. NumSectors - 1 |->
                        IF i \in DOMAIN e.closest THEN e.closest[i] ELSE scan_data_[i]]
    /\ running' = ~e.threw
    /\ cmd_vel_pub_' = << >>
    /\ cmd_args' = << >>
    /\ near_raised' = FALSE
    /\ last_pose' = << >>
    /\ scan_ran' = TRUE
    /\ scan_since_tick' = TRUE
    /\ UNCHANGED << since_new_scan, odomVars, seen, exceeded >>

\* ------------------------------------------------------------ odom_callback
\* the departure test with the comparison on y turned round
departed_test_y_flipped(x, y, sx, sy) ==
    Abs(x - sx) > START_RANGE \/ Abs(y - sy) < START_RANGE

\* fabs(current_x - start_x) > START_RANGE || fabs(current_y - start_y) > START_RANGE
departed_test(x, y, sx, sy) ==
    Abs(x - sx) > START_RANGE \/ Abs(y - sy) > START_RANGE

\* the arrival test with the boundary counted as near
arrived_test_inclusive(x, y, sx, sy) ==
    Abs(x - sx) <= START_RANGE /\ Abs(y - sy) <= START_RANGE

\* the arrival test measuring from the origin instead of the start point
arrived_test_from_origin(x, y, sx, sy) ==
    Abs(x) < START_RANGE /\ Abs(y) < START_RANGE

\* fabs(current_x - start_x) < START_RANGE && fabs(current_y - start_y) < START_RANGE
arrived_test(x, y, sx, sy) ==
    Abs(x - sx) < START_RANGE /\ Abs(y - sy) < START_RANGE

\* the chain with the arrival test not guarded by start_moving
odom_branch_no_hysteresis(x, y) ==
    IF first THEN "record"
    ELSE IF arrived_test(x, y, start_x, start_y) THEN "arrive"
    ELSE IF start_moving /\ departed_test(x, y, start_x, start_y) THEN "depart"
    ELSE IF start_moving THEN "stay"
    ELSE "away"

\* the branch of the if / else-if chain a sample takes
odom_branch(x, y) ==
    IF first THEN "record"
    ELSE IF start_moving
         THEN (IF departed_test(x, y, start_x, start_y) THEN "depart" ELSE "stay")
         ELSE (IF arrived_test(x, y, start_x, start_y) THEN "arrive" ELSE "away")

\* the callback recording the start point at the arrival sample as well
odom_callback_rerecords(x, y) ==
    /\ running
    /\ LET b == odom_branch(x, y)
       IN  /\ start_x' = IF b \in {"record", "arrive"} THEN x ELSE start_x
           /\ start_y' = IF b \in {"record", "arrive"} THEN y ELSE start_y
           /\ first' = CASE b = "record" -> FALSE
                         [] b = "arrive" -> TRUE
                         [] OTHER -> first
           /\ start_moving' = CASE b = "depart" -> FALSE
                                [] b = "arrive" -> TRUE
                                [] OTHER -> start_moving
           /\ near_start' = IF b = "arrive" THEN TRUE ELSE near_start
           /\ near_raised' = (b = "arrive")
           /\ last_pose' = << x, y >>
           /\ seen' = IF b = "arrive" THEN 0 ELSE seen
           /\ exceeded' = IF b = "record"
                          THEN FALSE
                          ELSE exceeded
                               \/ Abs(x - start_x) > START_RANGE
                               \/ Abs(y - start_y) > START_RANGE
    /\ cmd_vel_pub_' = << >>
    /\ cmd_args' = << >>
    /\ UNCHANGED << scanVars, since_new_scan, running, scan_ran, scan_since_tick >>

odom_callback(x, y) ==
    /\ running
    /\ LET b == odom_branch(x, y)
       IN  /\ start_x' = IF b = "record" THEN x ELSE start_x
           /\ start_y' = IF b = "record" THEN y ELSE start_y
           /\ first' = CASE b = "record" -> FALSE
                         [] b = "arrive" -> TRUE
                         [] OTHER -> first
           /\ start_moving' = CASE b = "depart" -> FALSE
                                [] b = "arrive" -> TRUE
                                [] OTHER -> start_moving
           /\ near_start' = IF b = "arrive" THEN TRUE ELSE near_start
           /\ near_raised' = (b = "arrive")
           /\ last_pose' = << x, y >>
           /\ seen' = IF b = "arrive" THEN 0 ELSE seen
           /\ exceeded' = IF b = "record"
                          THEN FALSE
                          ELSE exceeded
                               \/ Abs(x - start_x) > START_RANGE
                               \/ Abs(y - start_y) > START_RANGE
    /\ cmd_vel_pub_' = << >>
    /\ cmd_args' = << >>
    /\ UNCHANGED << scanVars, since_new_scan, running, scan_ran, scan_since_tick >>

\* ---------------------------------------------------------- update_callback
\* update_cmd_vel scaling the linear component only
update_cmd_vel_linear_only(linear, angular, factor) ==
    [linear |-> RatMul(linear, factor), angular |-> angular]

\* cmd_vel.linear.x = linear * factor; cmd_vel.angular.z = angular * factor
update_cmd_vel(linear, angular, factor) ==
    [linear |-> RatMul(linear, factor), angular |-> RatMul(angular, factor)]

\* update_velocity with the FRONT test placed before the first LEFT_FRONT test
update_velocity_front_first(sd, ns, n) ==
    LET factor == pow(BASE_FACTOR, n)
        call(l, a) == [linear |-> l, angular |-> a, factor |-> factor]
    IN  IF ns THEN call(Zero, Zero)
        ELSE IF sd[FRONT] < 70 THEN call(Zero, Rat(-15, 10))
        ELSE IF sd[LEFT_FRONT] > 90 THEN call(Rat(2, 10), Rat(15, 10))
        ELSE IF sd[FRONT_LEFT] < 60 THEN call(Rat(3, 10), Rat(-15, 10))
        ELSE IF sd[FRONT_RIGHT] < 60 THEN call(Rat(3, 10), Rat(15, 10))
        ELSE IF sd[LEFT_FRONT] > 60 THEN call(Rat(3, 10), Rat(15, 10))
        ELSE call(Rat(3, 10), Zero)

\* update_velocity with the near_start test placed last instead of first
update_velocity_stop_last(sd, ns, n) ==
    LET factor == pow(BASE_FACTOR, n)
        call(l, a) == [linear |-> l, angular |-> a, factor |-> factor]
    IN  IF sd[LEFT_FRONT] > 90 THEN call(Rat(2, 10), Rat(15, 10))
        ELSE IF sd[FRONT] < 70 THEN call(Zero, Rat(-15, 10))
        ELSE IF sd[FRONT_LEFT] < 60 THEN call(Rat(3, 10), Rat(-15, 10))
        ELSE IF sd[FRONT_RIGHT] < 60 THEN call(Rat(3, 10), Rat(15, 10))
        ELSE IF sd[LEFT_FRONT] > 60 THEN call(Rat(3, 10), Rat(15, 10))
        ELSE IF ns THEN call(Zero, Zero)
        ELSE call(Rat(3, 10), Zero)

\* The arguments update_velocity passes to update_cmd_vel, given the
\* clearances sd, the near-start flag ns and the counter n.
update_velocity(sd, ns, n) ==
    LET factor == pow(BASE_FACTOR, n)
        call(l, a) == [linear |-> l, angular |-> a, factor |-> factor]
    IN  IF ns THEN call(Zero, Zero)
        ELSE IF sd[LEFT_FRONT] > 90 THEN call(Rat(2, 10), Rat(15, 10))
        ELSE IF sd[FRONT] < 70 THEN call(Zero, Rat(-15, 10))
        ELSE IF sd[FRONT_LEFT] < 60 THEN call(Rat(3, 10), Rat(-15, 10))
        ELSE IF sd[FRONT_RIGHT] < 60 THEN call(Rat(3, 10), Rat(15, 10))
        ELSE IF sd[LEFT_FRONT] > 60 THEN call(Rat(3, 10), Rat(15, 10))
        ELSE call(Rat(3, 10), Zero)

\* update_callback without its first-scan gate
gate_always_open == TRUE

\* if (!initial_scan) return;
gate_open == initial_scan

\* the counter incremented on every tick, fresh scan or not
next_since_no_reset == since_new_scan + 1

\* the value since_new_scan has when update_velocity is called
next_since == IF new_scan_data THEN 0 ELSE since_new_scan + 1

update_callback ==
    /\ running
    /\ IF ~gate_open
       THEN /\ cmd_vel_pub_' = << >>
            /\ cmd_args' = << >>
            /\ seen' = seen
            /\ UNCHANGED << since_new_scan, new_scan_data >>
       ELSE /\ next_since <= MaxStale
            /\ since_new_scan' = next_since
            /\ new_scan_data' = FALSE
            /\ LET c == update_velocity(scan_data_, near_start, next_since)
               IN  /\ cmd_args' = << c >>
                   /\ cmd_vel_pub_' = << update_cmd_vel(c.linear, c.angular, c.factor) >>
            /\ seen' = IF near_start
                       THEN (IF seen < SeenCap THEN seen + 1 ELSE SeenCap)
                       ELSE seen
    /\ near_raised' = FALSE
    /\ last_pose' = << >>
    /\ scan_since_tick' = FALSE
    /\ UNCHANGED << scan_data_, initial_scan, odomVars, running, scan_ran, exceeded >>

\* ------------------------------------------------------------ specification
\* The member initial_scan is declared outside the files at hand; it starts
\* FALSE ("no scan has ever been received").
initial_scan_init == FALSE

\* The state after the constructor.  scan_data_ is zeroed, near_start is
\* false; since_new_scan and the fresh-scan flag have the header's default
\* member initialisers, the statics of odom_callback theirs.  start_x and
\* start_y are not initialised: they hold any value (and are written before
\* they are read).
Init ==
    /\ scan_data_ = [i \in 0 .. NumSectors - 1 |-> 0]
    /\ initial_scan = initial_scan_init
    /\ new_scan_data = FALSE
    /\ since_new_scan = 0
    /\ near_start = FALSE
    /\ \E p \in Poses : start_x = p[1] /\ start_y = p[2]
    /\ first = TRUE
    /\ start_moving = TRUE
    /\ running = TRUE
    /\ cmd_vel_pub_ = << >>
    /\ cmd_args = << >>
    /\ near_raised = FALSE
    /\ last_pose = << >>
    /\ scan_ran = FALSE
    /\ scan_since_tick = FALSE
    /\ seen = 0
    /\ exceeded = FALSE
    /\ last_scan = << >>
    /\ scan_pc = << >>

Next ==
    \/ \E e \in ScanEffects : scan_callback(e) /\ UNCHANGED auxVars
    \/ \E p \in Poses : odom_callback(p[1], p[2]) /\ UNCHANGED auxVars
    \/ update_callback /\ UNCHANGED auxVars

Spec == Init /\ [][Next]_vars

\* ------------------------------------------- the aggregation on its own
\* A wider family of scans for the sector aggregation alone: a second
\* range_max (0.8), samples equal to range_max, and a short sample at both
\* ends of the beams and either side of the 0/360 boundary.
WideRangeMaxes == RangeMaxes \cup {80}
WideBases == Bases \cup {350}
WideSpikeAt == SpikeAt \cup {9, 10, 20, 39, 349, 350}

WideScans ==
    { LaserScan(n, rmax, b, p, v) :
        n \in ScanLens, rmax \in WideRangeMaxes, b \in WideBases,
        p \in WideSpikeAt, v \in SpikeValues }

\* each scan with its effect (evaluated once)
ScanTable == { [msg |-> m, effect |-> scan_effect(m)] : m \in WideScans }

\* Scan callbacks only, from the state after construction, each recorded
\* with its message.
NextScan ==
    \E r \in ScanTable :
        /\ scan_callback(r.effect)
        /\ last_scan' = << r.msg >>
        /\ UNCHANGED scan_pc

SpecScan == Init /\ [][NextScan]_vars

\* ------------------------------------------- callbacks as the executor runs them
\* The same node with scan_callback taken one store at a time.  main hands
\* the node to rclcpp::spin, whose executor takes one ready callback at a
\* time on the calling thread and runs it to its end before the next; the
\* node itself has no lock and no atomic member.
ExecBases == {70, 100}
ExecScans ==
    { LaserScan(n, rmax, b, 0, v) :
        n \in {FullSweep - 1, FullSweep}, rmax \in RangeMaxes,
        b \in ExecBases, v \in {50} }
ExecTable == { [msg |-> m, effect |-> scan_effect(m)] : m \in ExecScans }
ExecPoses == { <<0, 0>>, <<20, 0>>, <<100, 100>> }

\* an executor with several threads: a callback is taken whenever it is ready
executor_idle_multithreaded == TRUE

\* no callback is in progress on the spinning thread
executor_idle == scan_pc = << >>

\* a scan arriving while the previous one has not been used by a tick is
\* dropped after the flags are set
scan_begin_first_wins(r) ==
    /\ running
    /\ executor_idle
    /\ initial_scan' = TRUE
    /\ new_scan_data' = TRUE
    /\ scan_pc' = IF new_scan_data
                  THEN << >>
                  ELSE << [effect |-> r.effect, sector |-> 0] >>
    /\ last_scan' = << r.msg >>
    /\ cmd_vel_pub_' = << >>
    /\ cmd_args' = << >>
    /\ near_raised' = FALSE
    /\ last_pose' = << >>
    /\ scan_ran' = TRUE
    /\ scan_since_tick' = TRUE
    /\ UNCHANGED << scan_data_, since_new_scan, odomVars, running, seen, exceeded >>

\* scan_callback up to the first loop: the flags are set
scan_begin(r) ==
    /\ running
    /\ executor_idle
    /\ initial_scan' = TRUE
    /\ new_scan_data' = TRUE
    /\ scan_pc' = << [effect |-> r.effect, sector |-> 0] >>
    /\ last_scan' = << r.msg >>
    /\ cmd_vel_pub_' = << >>
    /\ cmd_args' = << >>
    /\ near_raised' = FALSE
    /\ last_pose' = << >>
    /\ scan_ran' = TRUE
    /\ scan_since_tick' = TRUE
    /\ UNCHANGED << scan_data_, since_new_scan, odomVars, running, seen, exceeded >>

\* scan_callback's next sector: its beam is read and scan_data_[sector] is
\* stored, or the read throws and the exception leaves spin and main
scan_step ==
    /\ running
    /\ scan_pc # << >>
    /\ LET e == scan_pc[1].effect
           i == scan_pc[1].sector
       IN  IF i \in DOMAIN e.closest
           THEN /\ scan_data_' = [scan_data_ EXCEPT ![i] = e.closest[i]]
                /\ running' = running
                /\ scan_pc' = IF i = NumSectors - 1
                              THEN << >>
                              ELSE << [effect |-> e, sector |-> i + 1] >>
           ELSE /\ scan_data_' = scan_data_
                /\ running' = FALSE
                /\ scan_pc' = << >>
    /\ UNCHANGED << initial_scan, new_scan_data, since_new_scan, odomVars,
                    cmd_vel_pub_, cmd_args, near_raised, last_pose, scan_ran,
                    scan_since_tick, seen, exceeded, last_scan >>

NextExec ==
    \/ \E r \in ExecTable : scan_begin(r)
    \/ scan_step
    \/ \E p \in ExecPoses :
          executor_idle /\ odom_callback(p[1], p[2]) /\ UNCHANGED auxVars
    \/ executor_idle /\ update_callback /\ UNCHANGED auxVars

SpecExec == Init /\ [][NextExec]_vars


\* ================================================================== claims

\* the Twist published by the latest callback
twist == cmd_vel_pub_[1]
\* the (linear, angular) pair the latest callback passed to update_cmd_vel
chosen == << cmd_args[1].linear, cmd_args[1].angular >>
ZeroTwist == [linear |-> Zero, angular |-> Zero]

\* C1: a tick publishes exactly one command when some scan callback has run
\* before it and none otherwise; no other callback publishes.
C1_TickEmitsIffScanned ==
    [][ /\ update_callback =>
            Len(cmd_vel_pub_') = (IF scan_ran THEN 1 ELSE 0)
        /\ ~update_callback => cmd_vel_pub_' = << >> ]_vars

\* a command published by a tick that follows a scan
C1_Witness == scan_ran /\ Len(cmd_vel_pub_) = 1 /\ since_new_scan = 0

\* C2: one raise of near_start is seen as active by at most one policy
\* evaluation.
C2_PulseSeenOnce == seen <= 1

\* The rule ladder as the ordered list of (condition, pair) entries.
Ladder(sd, ns) ==
    << [when |-> ns,                   pair |-> << Zero, Zero >>],
       [when |-> sd[LEFT_FRONT] > 90,  pair |-> << Rat(2, 10), Rat(15, 10) >>],
       [when |-> sd[FRONT] < 70,       pair |-> << Zero, Rat(-15, 10) >>],
       [when |-> sd[FRONT_LEFT] < 60,  pair |-> << Rat(3, 10), Rat(-15, 10) >>],
       [when |-> sd[FRONT_RIGHT] < 60, pair |-> << Rat(3, 10), Rat(15, 10) >>],
       [when |-> sd[LEFT_FRONT] > 60,  pair |-> << Rat(3, 10), Rat(15, 10) >>],
       [when |-> TRUE,                 pair |-> << Rat(3, 10), Zero >>] >>

\* the index of the first entry whose condition holds
FirstMatch(rules) ==
    CHOOSE i \in 1 .. Len(rules) :
        rules[i].when /\ \A j \in 1 .. i - 1 : ~rules[j].when

\* C3: the pair update_velocity chooses is the pair of the first matching
\* rule of the ladder, one call per evaluation; with both rule 2 and rule 3
\* matching it is rule 2's.  (A tick leaves scan_data_ and near_start as it
\* read them, so the state after the tick shows what the policy saw.)
C3_FirstMatchWins ==
    /\ Len(cmd_args) <= 1
    /\ Len(cmd_args) = 1 =>
        LET rules == Ladder(scan_data_, near_start)
        IN  /\ chosen = rules[FirstMatch(rules)].pair
            /\ (~near_start /\ scan_data_[LEFT_FRONT] > 90 /\ scan_data_[FRONT] < 70)
                   => chosen = << Rat(2, 10), Rat(15, 10) >>

\* rule 2 chosen while rule 3's condition holds too
C3_Witness ==
    /\ Len(cmd_args) = 1
    /\ ~near_start
    /\ scan_data_[LEFT_FRONT] > 90
    /\ scan_data_[FRONT] < 70
    /\ chosen = << Rat(2, 10), Rat(15, 10) >>

\* C4: a tick that passes the gate with near_start set publishes (0, 0),
\* whatever the clearances and the counter.
C4_NearStartStops ==
    [][ (update_callback /\ initial_scan /\ near_start)
            => cmd_vel_pub_' = << ZeroTwist >> ]_vars

\* the stop published at staleness 2 with the left front wide open
C4_Witness ==
    /\ near_start
    /\ since_new_scan = 2
    /\ scan_data_[LEFT_FRONT] > 90
    /\ cmd_vel_pub_ = << ZeroTwist >>

\* C5: a tick that passes the gate sets since_new_scan to 0 when a scan
\* callback ran since the previous tick and adds exactly 1 otherwise; nothing
\* else changes the counter, and it is never negative.
C5_ResetOrIncrement ==
    [][ /\ (update_callback /\ initial_scan) =>
            since_new_scan' = (IF scan_since_tick THEN 0 ELSE since_new_scan + 1)
        /\ ~(update_callback /\ initial_scan) => since_new_scan' = since_new_scan
        /\ since_new_scan' >= 0 ]_vars

\* the counter after two ticks without a scan between them
C5_Witness == Len(cmd_vel_pub_) = 1 /\ since_new_scan = 2 /\ ~scan_since_tick

\* b^n as a rational, by integer powers
RatPow(b, n) == Rat(b.num ^ n, b.den ^ n)
\* the pair of the first matching rule, each component multiplied by f
Scaled(sd, ns, f) ==
    LET rules == Ladder(sd, ns)
        pair == rules[FirstMatch(rules)].pair
    IN  [linear |-> RatMul(pair[1], f), angular |-> RatMul(pair[2], f)]
AllClear == \A i \in 0 .. NumSectors - 1 : scan_data_[i] = 100

\* C6 as stated: every published command is the ladder's pair times
\* 0.8^since_new_scan, and clearances all 1.0 without near-start give
\* (0.3, 0.0) at staleness 0 and (0.24, 0.0) at staleness 1.
C6_AsStated ==
    Len(cmd_vel_pub_) = 1 =>
        /\ twist = Scaled(scan_data_, near_start, RatPow(Rat(8, 10), since_new_scan))
        /\ (AllClear /\ ~near_start /\ since_new_scan = 0)
               => twist = [linear |-> Rat(3, 10), angular |-> Zero]
        /\ (AllClear /\ ~near_start /\ since_new_scan = 1)
               => twist = [linear |-> Rat(24, 100), angular |-> Zero]

\* C6 amended: every published command is the ladder's pair times
\* 0.8^since_new_scan (1 at counter 0); clearances all 1.0 without near-start
\* match rule 2 and give (0.2, 1.5) at staleness 0 and (0.16, 1.2) at
\* staleness 1.
C6_ScaledByDecay ==
    Len(cmd_vel_pub_) = 1 =>
        /\ twist = Scaled(scan_data_, near_start, RatPow(Rat(8, 10), since_new_scan))
        /\ since_new_scan = 0 => cmd_args[1].factor = Rat(1, 1)
        /\ (AllClear /\ ~near_start /\ since_new_scan = 0)
               => twist = [linear |-> Rat(2, 10), angular |-> Rat(15, 10)]
        /\ (AllClear /\ ~near_start /\ since_new_scan = 1)
               => twist = [linear |-> Rat(16, 100), angular |-> Rat(12, 10)]

\* the all-clear command at staleness 1
C6_Witness ==
    /\ AllClear
    /\ ~near_start
    /\ since_new_scan = 1
    /\ cmd_vel_pub_ = << [linear |-> Rat(16, 100), angular |-> Rat(12, 10)] >>

\* C7: odom_callback raises near_start only when some earlier sample since
\* the start point was recorded was further than START_RANGE from it.
C7_RaiseOnlyAfterDeparture == near_raised => exceeded

\* a raise, after a sample that went beyond START_RANGE
C7_Witness == near_raised /\ exceeded /\ near_start

\* max(|x - start_x|, |y - start_y|)
Cheb(x, y) ==
    IF Abs(x - start_x) > Abs(y - start_y) THEN Abs(x - start_x) ELSE Abs(y - start_y)

\* C8: in the departed state a sample closer than START_RANGE to the start
\* point raises near_start in that invocation, and the sample after a raise
\* does not raise again.
C8_ReturnRaisesOnce ==
    [][ \A p \in Poses :
          odom_callback(p[1], p[2]) =>
            /\ (~first /\ ~start_moving /\ Cheb(p[1], p[2]) < START_RANGE)
                   => (near_raised' /\ near_start')
            /\ near_raised => ~near_raised' ]_vars

\* the raise at (0.05, 0.05) after leaving the start point (0, 0)
C8_Witness ==
    /\ near_raised
    /\ exceeded
    /\ start_x = 0 /\ start_y = 0
    /\ last_pose = << 5, 5 >>

\* the start-proximity state the static flags encode
tracker ==
    IF first THEN "ARRIVED"
    ELSE IF start_moving THEN "AWAITING_DEPARTURE"
    ELSE "DEPARTED"

\* C9: the start-proximity state changes only along AWAITING_DEPARTURE ->
\* DEPARTED -> ARRIVED -> AWAITING_DEPARTURE, and the step into ARRIVED is
\* the one that raises near_start.
C9_CyclicTransitions ==
    [][ /\ tracker' # tracker =>
            << tracker, tracker' >> \in
                { << "AWAITING_DEPARTURE", "DEPARTED" >>,
                  << "DEPARTED", "ARRIVED" >>,
                  << "ARRIVED", "AWAITING_DEPARTURE" >> }
        /\ (tracker' # tracker /\ tracker' = "ARRIVED") <=> near_raised'
        /\ first' => start_moving' ]_vars

\* the tracker just after the step from DEPARTED to ARRIVED
C9_Witness == near_raised /\ tracker = "ARRIVED" /\ exceeded

\* C10: a scan too short for the indices read is rejected with the state
\* unchanged: the clearances are retained, the fresh-scan flag is not set,
\* and the node goes on ticking.
C10_UnderLengthRejected ==
    [][ \A e \in ScanEffects :
          (e.threw /\ scan_callback(e)) =>
            /\ scan_data_' = scan_data_
            /\ new_scan_data' = new_scan_data
            /\ running' ]_vars

\* ------------------------------------------------ claims on the aggregation
\* the latest scan callback ran to its end
completed == last_scan # << >> /\ running
\* its message, and the sample at index k of a message
scanned == last_scan[1]
Sample(m, k) == m.ranges[k + 1]
SetMin(S) == CHOOSE x \in S : \A y \in S : x <= y
Sectors == 0 .. NumSectors - 1

\* C11: every entry of scan_data_ lies in [0, range_max] of the scan that
\* produced it: the entries are 0 before any scan, and a scan callback leaves
\* each entry either as it was or within [0, range_max] of its message.
C11_WithinRange ==
    /\ \A i \in Sectors : scan_data_[i] = 0
    /\ [][ last_scan' # << >> =>
             \A i \in Sectors :
                \/ scan_data_'[i] = scan_data_[i]
                \/ /\ scan_data_'[i] >= 0
                   /\ scan_data_'[i] <= last_scan'[1].range_max ]_vars

\* samples beyond range_max 0.8 stored as 0.8 in every sector
C11_Witness ==
    /\ completed
    /\ scanned.range_max = 80
    /\ Sample(scanned, 0) > 80
    /\ \A i \in Sectors : scan_data_[i] = 80

\* the minimum of range_max and the samples at bearing + d, d in offsets,
\* indices taken modulo n
WindowMin(m, bearing, offsets, n) ==
    SetMin({m.range_max} \cup {Sample(m, (bearing + d) % n) : d \in offsets})

\* C12 as stated: after a completed scan each clearance is the minimum of
\* range_max and the samples within +/-10 of its bearing, both ends
\* included, modulo the sweep length.
C12_AsStated ==
    completed =>
        \A i \in Sectors :
            scan_data_[i] = WindowMin(scanned, SectorStep * i,
                                      -BEAM_WIDTH .. BEAM_WIDTH, Len(scanned.ranges))

\* C12 amended: each clearance is the minimum of range_max and the samples
\* at indices bearing-10 .. bearing+9 modulo 360 (bearing+10 is not read);
\* samples all equal to range_max give range_max in every entry.
C12_HalfOpenWindow ==
    completed =>
        /\ \A i \in Sectors :
              scan_data_[i] = WindowMin(scanned, SectorStep * i,
                                        -BEAM_WIDTH .. BEAM_WIDTH - 1, 360)
        /\ (\A k \in 0 .. Len(scanned.ranges) - 1 :
                Sample(scanned, k) = scanned.range_max)
              => \A i \in Sectors : scan_data_[i] = scanned.range_max

\* one short sample at index 39 = 30 + 9 lowers the clearance of bearing 30
C12_Witness ==
    /\ completed
    /\ Sample(scanned, 39) = 50
    /\ Sample(scanned, 38) > 50
    /\ scan_data_[1] = 50
    /\ scan_data_[2] > 50

\* C13 as stated: the forward clearance is the minimum of range_max, the
\* last BEAM_WIDTH samples (N-10 .. N-1) and the first BEAM_WIDTH samples.
C13_AsStated ==
    completed =>
        LET n == Len(scanned.ranges)
        IN  scan_data_[FRONT] =
                SetMin({scanned.range_max}
                       \cup {Sample(scanned, k) : k \in n - BEAM_WIDTH .. n - 1}
                       \cup {Sample(scanned, k) : k \in 0 .. BEAM_WIDTH - 1})

\* C13 amended: the forward clearance is the minimum of range_max and the
\* samples at indices 350 .. 359 and 0 .. 9, whatever the length N >= 360;
\* these are the last and first BEAM_WIDTH samples when N = 360.
C13_FixedForwardWindow ==
    completed =>
        /\ Len(scanned.ranges) >= 360
        /\ scan_data_[FRONT] =
              SetMin({scanned.range_max}
                     \cup {Sample(scanned, k) : k \in 350 .. 359}
                     \cup {Sample(scanned, k) : k \in 0 .. 9})

\* a 360-sample scan whose only short sample is the last one
C13_Witness ==
    /\ completed
    /\ Len(scanned.ranges) = 360
    /\ Sample(scanned, 359) = 50
    /\ Sample(scanned, 0) > 50
    /\ scan_data_[FRONT] = 50

\* the effect of the scan callback that ran last
LastEffect == (CHOOSE r \in ExecTable : r.msg = last_scan[1]).effect

\* C14: under every interleaving of the three callbacks, a tick reads
\* scan_data_ as left by completed callbacks only: no scan callback is under
\* way, the array is the constructor's or entirely the latest scan's, and
\* the fresh-scan flag is set exactly when a scan ran since the last tick.
C14_TickSeesCompletedScans ==
    [][ update_callback =>
          /\ scan_pc = << >>
          /\ scan_data_ = IF last_scan = << >>
                          THEN [i \in Sectors |-> 0]
                          ELSE LastEffect.closest
          /\ new_scan_data = scan_since_tick ]_vars

\* a command computed from a second scan taken whole, after the pose
\* callback ran in between: front from its short sample, the rest its base
C14_Witness ==
    /\ Len(cmd_vel_pub_) = 1
    /\ since_new_scan = 0
    /\ exceeded
    /\ scan_pc = << >>
    /\ last_scan # << >>
    /\ scan_data_[FRONT] = 50
    /\ \A i \in Sectors \ {FRONT} : scan_data_[i] = 70

C16_StrictThresholds ==
    [][ \A p \in Poses :
          odom_callback(p[1], p[2]) =>
            /\ tracker = "AWAITING_DEPARTURE" =>
                  (tracker' = "DEPARTED" <=> Cheb(p[1], p[2]) > START_RANGE)
            /\ tracker = "DEPARTED" =>
                  /\ tracker' = "ARRIVED" <=> Cheb(p[1], p[2]) < START_RANGE
                  /\ near_raised' <=> Cheb(p[1], p[2]) < START_RANGE
            /\ (tracker # "ARRIVED" /\ Cheb(p[1], p[2]) = START_RANGE) =>
                  tracker' = tracker ]_vars

\* departed from (0, 0), then a sample at exactly 0.2 from it: still departed
C16_Witness ==
    /\ tracker = "DEPARTED"
    /\ exceeded
    /\ start_x = 0 /\ start_y = 0
    /\ last_pose = << 20, 0 >>

\* C17: a tick that emits a command computes it from the clearances of the
\* scan callback that completed last, however many scans ran since the
\* previous tick, and then resets the counter to 0 once; steps that are not
\* part of a scan callback leave the clearances as they were, so ticks with
\* no scan between them use the same clearances.
C17_LatestScanWins ==
    [][ /\ (update_callback /\ initial_scan) =>
            /\ last_scan # << >>
            /\ ~LastEffect.threw
            /\ cmd_vel_pub_'[1] = Scaled(LastEffect.closest, near_start,
                                         RatPow(Rat(8, 10), since_new_scan'))
            /\ scan_since_tick => since_new_scan' = 0
            /\ ~scan_since_tick => since_new_scan' = since_new_scan + 1
        /\ (last_scan' = last_scan /\ scan_pc' = scan_pc) =>
              scan_data_' = scan_data_ ]_vars

\* the second tick after the scan with base 1.0, no scan in between: the
\* command is still that scan's rule, decayed once
C17_Witness ==
    /\ Len(cmd_vel_pub_) = 1
    /\ since_new_scan = 1
    /\ last_scan # << >>
    /\ Sample(scanned, 1) = 100
    /\ scan_data_ = LastEffect.closest
    /\ twist = [linear |-> Rat(16, 100), angular |-> Rat(12, 10)]

\* C18: each callback leaves the other callbacks' part of the state alone:
\* odom_callback the clearances, the counter and both scan flags;
\* scan_callback near_start, the start point, the hysteresis flags and the
\* counter; the tick the clearances, the start point and the hysteresis flags.
\* (For scan_callback: a step keeps its frame or is no scan_callback.)
C18_Frames ==
    [][ /\ \A p \in Poses :
              odom_callback(p[1], p[2]) =>
                UNCHANGED << scan_data_, since_new_scan, new_scan_data, initial_scan >>
        /\ \/ UNCHANGED << near_start, start_x, start_y, first, start_moving,
                          since_new_scan >>
           \/ \A e \in ScanEffects : ~scan_callback(e)
        /\ update_callback =>
              UNCHANGED << scan_data_, start_x, start_y, first, start_moving >> ]_vars

\* a pose callback's departure recorded while the clearances of a scan and a
\* counter of 2 are kept, and a later scan that kept the counter and the start
C18_Witness ==
    /\ scan_since_tick
    /\ new_scan_data
    /\ since_new_scan = 2
    /\ tracker = "DEPARTED"
    /\ start_x = 0 /\ start_y = 0
    /\ scan_data_[FRONT] = 50

====
